---- MODULE Spec2Model ----
(***************************************************************************)
(* A model of the ChatSummary plugin (src/main.py): the per-conversation   *)
(* message buffers, the single-flight guard kept in summary_tasks, the     *)
(* summarization coroutine _summarize_chat with its suspension points, and *)
(* close().  One asyncio event loop runs everything: an action is the code *)
(* that runs between two awaits of one coroutine.                          *)
(***************************************************************************)
EXTENDS Integers, Sequences, FiniteSets, TLC

\* ------------------------------------------------------------------ bounds
\* number of messages the host delivers to handle_text_message
MaxMsgs == 2
\* number of direct calls of _summarize_chat, and of messages that arrive
\* next to them (specification SpecDirect only)
MaxCalls == 1
MaxDirectMsgs == 1
\* length of the texts of specification SpecExtract
MaxTextLen == 4

\* ------------------------------------------------------------ input sets
Chats == {"c1", "c2"}

\* config.toml: commands and default_num_messages ("z" stands for one
\* trigger phrase such as the two-character command of the shipped config)
commands == { <<"z">> }
default_num_messages == 2

\* a message without a usable CreateTime (key missing or not a timestamp)
NoTime == -1

\* the message shapes the host delivers (FromWxid is added per conversation)
MsgShapes ==
    { [SenderWxid |-> "u1", Content |-> <<"h">>,      CreateTime |-> 3725],
      [SenderWxid |-> "u2", Content |-> <<"h">>,      CreateTime |-> NoTime],
      [SenderWxid |-> "u2", Content |-> <<"z">>,      CreateTime |-> 90125],
      [SenderWxid |-> "u1", Content |-> <<"z", "0">>, CreateTime |-> 3725] }

Messages ==
    { [FromWxid |-> c, SenderWxid |-> s.SenderWxid, Content |-> s.Content,
       CreateTime |-> s.CreateTime] : c \in Chats, s \in MsgShapes }

\* outcomes of the host calls bot.send_text_message and bot.get_nickname
SendOutcomes == {"ok", "AttributeError", "Exception"}
NickOutcomes == {"ok", "Exception"}

\* what the host returns for a sender whose nickname it knows
HostNickname(wxid) == IF wxid = "u1" THEN "Alice" ELSE "Bob"

\* answers of the external summarization service: 200 with an "answer" field,
\* a non-200 status with a body, and a network failure
DifyResponses ==
    { [status |-> 200, answer |-> "ans",  body |-> "",             raises |-> FALSE],
      [status |-> 500, answer |-> "",     body |-> "server error", raises |-> FALSE],
      [status |-> 0,   answer |-> "",     body |-> "",             raises |-> TRUE] }

VARIABLES
    enable,             \* self.enable
    chat_history,       \* self.chat_history: conversation -> list of messages
    summary_tasks,      \* self.summary_tasks: the dict's entry array
    last_summary_time,  \* self.last_summary_time (0: no entry)
    http_session,       \* self.http_session: "open" or "closed"
    tasks,              \* every coroutine of _summarize_chat ever started
    closer,             \* the coroutine of close()
    outbox,             \* the send_text_message calls that returned, per conversation
    clock,              \* datetime.now(), as a logical clock
    received,           \* number of handle_text_message calls so far
    called,             \* number of direct _summarize_chat calls so far
    uncaught            \* coroutines an exception of a host call left: 0 is
                        \* handle_text_message, t > 0 is task t

vars == << enable, chat_history, summary_tasks, last_summary_time, http_session,
           tasks, closer, outbox, clock, received, called, uncaught >>

\* ------------------------------------------------- pure helpers of the code

IsDigit(ch) == ch \in {"0", "1", "2", "3", "4", "5", "6", "7", "8", "9"}

DigitVal(ch) ==
    CASE ch = "0" -> 0 [] ch = "1" -> 1 [] ch = "2" -> 2 [] ch = "3" -> 3
      [] ch = "4" -> 4 [] ch = "5" -> 5 [] ch = "6" -> 6 [] ch = "7" -> 7
      [] ch = "8" -> 8 [] ch = "9" -> 9

\* int() of the digits text[i..j]
RECURSIVE IntOf(_, _, _)
IntOf(text, i, j) ==
    IF j < i THEN 0 ELSE 10 * IntOf(text, i, j - 1) + DigitVal(text[j])

\* the end of the maximal run of digits that starts at i
RECURSIVE RunEnd(_, _)
RunEnd(text, i) ==
    IF i < Len(text) /\ IsDigit(text[i + 1]) THEN RunEnd(text, i + 1) ELSE i

\* the value _extract_num_messages returns when it finds no digits
None == -1

\* a pattern without the "+": the first digit alone
_extract_first_digit(text) ==
    LET starts == { i \in 1..Len(text) : IsDigit(text[i]) }
    IN  IF starts = {} THEN None
        ELSE DigitVal(text[CHOOSE k \in starts : \A l \in starts : k <= l])

\* re.search(r'(\d+)', text): the leftmost maximal run of digits, as an int
_extract_num_messages(text) ==
    LET starts == { i \in 1..Len(text) : IsDigit(text[i]) }
    IN  IF starts = {} THEN None
        ELSE LET i == CHOOSE k \in starts : \A l \in starts : k <= l
             IN  IntOf(text, i, RunEnd(text, i))

\* cmd in content
Contains(content, cmd) ==
    \E i \in 1..(Len(content) - Len(cmd) + 1) :
        SubSeq(content, i, i + Len(cmd) - 1) = cmd

\* any(cmd in content for cmd in self.commands)
IsCommand(content) == \E cmd \in commands : Contains(content, cmd)

\* the count handle_text_message passes to _summarize_chat
NumMessages(content) ==
    LET num == _extract_num_messages(content)
    IN  IF num = None THEN default_num_messages ELSE num

\* Python's history[-n:]
PySlice(history, n) ==
    LET len == Len(history)
        start == IF n = 0 THEN 1
                 ELSE IF n > 0 THEN (IF n >= len THEN 1 ELSE len - n + 1)
                 ELSE (IF -n >= len THEN len + 1 ELSE -n + 1)
    IN  SubSeq(history, start, len)

\* self.chat_history[chat_id][-num_messages:]
messages_to_summarize(history, n) == PySlice(history, n)

\* datetime.fromtimestamp(t).strftime('%H:%M:%S')
FormatTime(t) == << (t \div 3600) % 24, (t \div 60) % 60, t % 60 >>

\* set(msg['SenderWxid'] for msg in messages_to_summarize)
Wxids(msgs) == { msgs[i].SenderWxid : i \in 1..Len(msgs) }

\* rendering raises when a record has no usable CreateTime
RenderRaises(msgs) == \E i \in 1..Len(msgs) : msgs[i].CreateTime = NoTime

\* the lines "displayName (HH:MM:SS): content", in the order of msgs
Render(msgs, nicknames) ==
    [ i \in 1..Len(msgs) |->
        [ name    |-> IF msgs[i].SenderWxid \in DOMAIN nicknames
                      THEN nicknames[msgs[i].SenderWxid]
                      ELSE msgs[i].SenderWxid,
          time    |-> FormatTime(msgs[i].CreateTime),
          content |-> msgs[i].Content ] ]

NoSummary == [kind |-> "none", status |-> 0, text |-> ""]

\* what _get_summary_from_dify returns for a response of the service
_get_summary_from_dify(resp) ==
    IF resp.raises THEN [kind |-> "retry_later", status |-> 0, text |-> ""]
    ELSE IF resp.status = 200
         THEN [kind |-> "answer", status |-> 200, text |-> resp.answer]
         ELSE [kind |-> "api_error", status |-> resp.status, text |-> resp.body]

\* ----------------------------------------------- the dict self.summary_tasks
\* A CPython dict keeps its items in an entry array in insertion order; a
\* deleted item leaves a dummy entry behind and an insert appends.

Dummy == [key |-> "", task |-> 0]

\* the entries a fresh key table holds before an insert rebuilds the table
DictUsable == 5

DictKeys(d) == { d[i].key : i \in { j \in 1..Len(d) : d[j] # Dummy } }

DictLen(d) == Cardinality({ j \in 1..Len(d) : d[j] # Dummy })

DictGet(d, k) == (CHOOSE e \in { d[i] : i \in 1..Len(d) } : e.key = k).task

RECURSIVE Compact(_)
Compact(d) ==
    IF d = << >> THEN << >>
    ELSE IF Head(d) = Dummy THEN Compact(Tail(d))
    ELSE << Head(d) >> \o Compact(Tail(d))

\* d[k] = t
DictSet(d, k, t) ==
    IF k \in DictKeys(d)
    THEN [ i \in 1..Len(d) |-> IF d[i].key = k THEN [key |-> k, task |-> t] ELSE d[i] ]
    ELSE IF Len(d) >= DictUsable
         THEN Append(Compact(d), [key |-> k, task |-> t])
         ELSE Append(d, [key |-> k, task |-> t])

\* del d[k]
DictDel(d, k) == [ i \in 1..Len(d) |-> IF d[i].key = k THEN Dummy ELSE d[i] ]

\* a guard that never sees the marker
InProgress_never(c) == FALSE

\* chat_id in self.summary_tasks
InProgress(c) == c \in DictKeys(summary_tasks)

\* a cleanup that empties the whole dict
Finally_clear(d, c) == [ i \in 1..Len(d) |-> Dummy ]

\* the finally block of _summarize_chat
Finally(d, c) == IF c \in DictKeys(d) THEN DictDel(d, c) ELSE d

\* ------------------------------------------------ the coroutines' records

\* a transcript rendered from the live buffer instead of the snapshot
text_to_summarize_live(task) ==
    Render(messages_to_summarize(chat_history[task.chat_id], task.num_messages),
           task.nicknames)

\* the transcript a task submits, lines 146-149
text_to_summarize(task) == Render(task.messages_to_summarize, task.nicknames)

\* a coroutine of _summarize_chat; pc names the await it is suspended at
NewTask(c, n, origin) ==
    [ chat_id |-> c, num_messages |-> n, pc |-> "start",
      must_cancel |-> FALSE,          \* Task.cancel() was called on it
      cancelled |-> FALSE,            \* Task.cancelled()
      messages_to_summarize |-> << >>,
      todo |-> {}, cur |-> "",        \* the loop "for wxid in wxids"
      nicknames |-> [w \in {} |-> ""],
      text |-> << >>,                 \* text_to_summarize, once submitted
      summary |-> NoSummary,
      origin |-> origin,              \* "trigger" or "direct"
      sawEmpty |-> FALSE,             \* took the empty-history branch
      histLen |-> 0,                  \* len(chat_history[chat_id]) at line 132
      difyCalls |-> 0,                \* calls of _get_summary_from_dify
      lookups |-> << >>,              \* the get_nickname calls that returned
      trigIdx |-> 0 ]                 \* where its trigger sits in the buffer

NoIter == [used |-> 0, pos |-> 0, len |-> 0]

TaskIds == 1..Len(tasks)

Unfinished(c) == { t \in TaskIds : tasks[t].chat_id = c /\ tasks[t].pc # "done" }

\* one record of the host's send_text_message
Sent(kind, summary, by, outcome) ==
    [kind |-> kind, summary |-> summary, by |-> by, ok |-> (outcome = "ok")]

Init ==
    /\ enable \in BOOLEAN
    /\ chat_history = [c \in Chats |-> << >>]
    /\ summary_tasks = << >>
    /\ last_summary_time = [c \in Chats |-> 0]
    /\ http_session = "open"
    /\ tasks = << >>
    /\ closer = [pc |-> "idle", it |-> NoIter, task |-> 0]
    /\ outbox = [c \in Chats |-> << >>]
    /\ clock = 0
    /\ received = 0
    /\ called = 0
    /\ uncaught = {}

\* ----------------------------------------------------- handle_text_message

\* the task of lines 270-272; the trigger is the record just appended
TriggeredTask(c, n) ==
    [NewTask(c, n, "trigger") EXCEPT !.trigIdx = Len(chat_history[c]) + 1]

\* a deflection that does not return (line 267 missing)
TasksAfterTrigger_fallthrough(c, n) == Append(tasks, TriggeredTask(c, n))

\* lines 258-273 for a trigger: the deflection, or the new task and its marker
TasksAfterTrigger(c, n) ==
    IF InProgress(c) THEN tasks ELSE Append(tasks, TriggeredTask(c, n))

MarkersAfterTrigger(c) ==
    IF InProgress(c) THEN summary_tasks
    ELSE DictSet(summary_tasks, c, Len(tasks) + 1)

OutboxAfterTrigger(c, outcome) ==
    IF InProgress(c)
    THEN [outbox EXCEPT ![c] = Append(@, Sent("in_progress", NoSummary, 0, outcome))]
    ELSE outbox

\* a handler that skips the test of line 240
Disabled_ignored == FALSE

\* line 240
Disabled == ~enable

\* a buffer that keeps the newest record only
Record_capped(message) ==
    [chat_history EXCEPT ![message.FromWxid] = << message >>]

\* a buffer that does not keep the commands
Record_nontrigger(message) ==
    IF IsCommand(message.Content) THEN chat_history
    ELSE [chat_history EXCEPT ![message.FromWxid] = Append(@, message)]

\* line 248
Record(message) ==
    [chat_history EXCEPT ![message.FromWxid] = Append(@, message)]

\* except clauses that catch AttributeError only
UncaughtAfterSend_narrow(by, outcome) ==
    IF outcome = "Exception" THEN uncaught \cup {by} ELSE uncaught

\* lines 261-266 and 170-175: both except clauses return, nothing is raised
UncaughtAfterSend(by, outcome) == uncaught

HandleTextMessage(message, outcome) ==
    /\ received < MaxMsgs
    /\ received' = received + 1
    /\ IF Disabled
       THEN UNCHANGED << chat_history, tasks, summary_tasks, outbox, uncaught >>
       ELSE LET chat_id == message.FromWxid
                content == message.Content
            IN  /\ chat_history' = Record(message)
                /\ IF IsCommand(content)
                   THEN /\ tasks' = TasksAfterTrigger(chat_id, NumMessages(content))
                        /\ summary_tasks' = MarkersAfterTrigger(chat_id)
                        /\ outbox' = OutboxAfterTrigger(chat_id, outcome)
                        /\ uncaught' = IF InProgress(chat_id)
                                       THEN UncaughtAfterSend(0, outcome)
                                       ELSE uncaught
                   ELSE UNCHANGED << tasks, summary_tasks, outbox, uncaught >>
    /\ UNCHANGED << enable, last_summary_time, http_session, closer, clock, called >>

\* ---------------------------------------------------------- _summarize_chat

\* the coroutine returned or was cancelled: its locals are gone
Done(tk, wasCancelled) ==
    [ NewTask(tk.chat_id, 0, tk.origin) EXCEPT
        !.pc = "done", !.must_cancel = tk.must_cancel, !.cancelled = wasCancelled,
        !.sawEmpty = tk.sawEmpty, !.difyCalls = tk.difyCalls ]

\* lines 146-152: render the transcript and call the service, or raise
Submit(tk) ==
    IF RenderRaises(tk.messages_to_summarize)
    THEN [tk EXCEPT !.pc = "errsend"]
    ELSE [tk EXCEPT !.pc = "dify", !.text = text_to_summarize(tk),
                    !.difyCalls = @ + 1]

\* lines 137-139: the next sender of the loop (a set has no fixed order)
NextLookup(tk) ==
    IF tk.todo = {} THEN { Submit(tk) }
    ELSE { [tk EXCEPT !.pc = "nick", !.cur = w, !.todo = @ \ {w}] : w \in tk.todo }

\* lines 132-136
Snapshot(tk) ==
    LET history == chat_history[tk.chat_id]
        msgs == messages_to_summarize(history, tk.num_messages)
    IN  NextLookup([tk EXCEPT !.messages_to_summarize = msgs,
                              !.todo = Wxids(msgs),
                              !.histLen = Len(history)])

\* the first step of the coroutine, lines 119-124 or 119-139
TaskStart(t) ==
    /\ t \in TaskIds
    /\ tasks[t].pc = "start" /\ ~tasks[t].must_cancel
    /\ IF chat_history[tasks[t].chat_id] = << >>
       THEN tasks' = [tasks EXCEPT ![t] = [@ EXCEPT !.pc = "notice", !.sawEmpty = TRUE]]
       ELSE \E nt \in Snapshot(tasks[t]) : tasks' = [tasks EXCEPT ![t] = nt]
    /\ UNCHANGED << enable, chat_history, summary_tasks, last_summary_time,
                    http_session, closer, outbox, clock, received, called, uncaught >>

\* the send of line 124 returns or raises, lines 124-139
NoticeReturn(t, outcome) ==
    /\ t \in TaskIds
    /\ tasks[t].pc = "notice" /\ ~tasks[t].must_cancel
    /\ outbox' = [outbox EXCEPT ![tasks[t].chat_id] =
                     Append(@, Sent("no_history", NoSummary, t, outcome))]
    /\ IF outcome = "ok"
       THEN /\ \E nt \in Snapshot(tasks[t]) : tasks' = [tasks EXCEPT ![t] = nt]
            /\ UNCHANGED summary_tasks
       ELSE /\ tasks' = [tasks EXCEPT ![t] = Done(@, FALSE)]
            /\ summary_tasks' = Finally(summary_tasks, tasks[t].chat_id)
    /\ UNCHANGED << enable, chat_history, last_summary_time, http_session,
                    closer, clock, received, called, uncaught >>

\* a lookup without its own try statement: the failure reaches line 166
AfterLookup_abort(tk, outcome) ==
    IF outcome = "ok"
    THEN NextLookup([tk EXCEPT !.nicknames = (tk.cur :> HostNickname(tk.cur)) @@ @,
                               !.lookups = Append(@, [wxid |-> tk.cur, ok |-> TRUE]),
                               !.cur = ""])
    ELSE { [tk EXCEPT !.pc = "errsend", !.cur = ""] }

\* lines 138-143, then the loop goes on: the nickname, or the wxid itself
AfterLookup(tk, outcome) ==
    LET wxid == tk.cur
        nickname == IF outcome = "ok" THEN HostNickname(wxid) ELSE wxid
    IN  NextLookup([tk EXCEPT !.nicknames = (wxid :> nickname) @@ @,
                              !.lookups = Append(@, [wxid |-> wxid,
                                                     ok |-> (outcome = "ok")]),
                              !.cur = ""])

\* bot.get_nickname returns or raises, lines 139-152
NickReturn(t, outcome) ==
    /\ t \in TaskIds
    /\ tasks[t].pc = "nick" /\ ~tasks[t].must_cancel
    /\ \E nt \in AfterLookup(tasks[t], outcome) : tasks' = [tasks EXCEPT ![t] = nt]
    /\ UNCHANGED << enable, chat_history, summary_tasks, last_summary_time,
                    http_session, closer, outbox, clock, received, called, uncaught >>

\* _get_summary_from_dify returns, lines 152-155 (a closed session makes
\* the post raise)
DifyReturn(t, resp) ==
    /\ t \in TaskIds
    /\ tasks[t].pc = "dify" /\ ~tasks[t].must_cancel
    /\ http_session = "closed" => resp.raises
    /\ tasks' = [tasks EXCEPT ![t] =
                    [@ EXCEPT !.pc = "send", !.summary = _get_summary_from_dify(resp)]]
    /\ UNCHANGED << enable, chat_history, summary_tasks, last_summary_time,
                    http_session, closer, outbox, clock, received, called, uncaught >>

\* line 163, when the send of line 155 returned
TimeAfterSend(c, outcome) ==
    IF outcome = "ok" THEN [last_summary_time EXCEPT ![c] = clock + 1]
    ELSE last_summary_time

\* the send of line 155 returns or raises, lines 155-164 and 176-178
SendReturn(t, outcome) ==
    /\ t \in TaskIds
    /\ tasks[t].pc = "send" /\ ~tasks[t].must_cancel
    /\ outbox' = [outbox EXCEPT ![tasks[t].chat_id] =
                     Append(@, Sent("banner", tasks[t].summary, t, outcome))]
    /\ last_summary_time' = TimeAfterSend(tasks[t].chat_id, outcome)
    /\ clock' = IF outcome = "ok" THEN clock + 1 ELSE clock
    /\ tasks' = [tasks EXCEPT ![t] = Done(@, FALSE)]
    /\ summary_tasks' = Finally(summary_tasks, tasks[t].chat_id)
    /\ UNCHANGED << enable, chat_history, http_session, closer, received, called, uncaught >>

\* the send of line 169 returns or raises, lines 169-178
ErrSendReturn(t, outcome) ==
    /\ t \in TaskIds
    /\ tasks[t].pc = "errsend" /\ ~tasks[t].must_cancel
    /\ outbox' = [outbox EXCEPT ![tasks[t].chat_id] =
                     Append(@, Sent("error", NoSummary, t, outcome))]
    /\ tasks' = [tasks EXCEPT ![t] = Done(@, FALSE)]
    /\ summary_tasks' = Finally(summary_tasks, tasks[t].chat_id)
    /\ uncaught' = UncaughtAfterSend(t, outcome)
    /\ UNCHANGED << enable, chat_history, last_summary_time, http_session,
                    closer, clock, received, called >>

\* The step of a task after Task.cancel(): CancelledError is thrown into the
\* coroutine at its await.  It is no Exception, so only the finally block
\* runs; a coroutine that never started has not entered the try statement.
MarkersAfterCancel(tk) ==
    IF tk.pc = "start" THEN summary_tasks ELSE Finally(summary_tasks, tk.chat_id)

TaskCancelled(t) ==
    /\ t \in TaskIds
    /\ tasks[t].pc # "done" /\ tasks[t].must_cancel
    /\ summary_tasks' = MarkersAfterCancel(tasks[t])
    /\ tasks' = [tasks EXCEPT ![t] = Done(@, TRUE)]
    /\ UNCHANGED << enable, chat_history, last_summary_time, http_session,
                    closer, outbox, clock, received, called, uncaught >>

\* -------------------------------------------------------------------- close

\* next() of the dict's item iterator, then the loop body up to its await
RECURSIVE CloseLoop(_)
CloseLoop(it) ==
    LET d == summary_tasks
        live == { i \in (it.pos + 1)..Len(d) : d[i] # Dummy }
    IN  IF it.used # DictLen(d)
        THEN [kind |-> "raise", it |-> it, task |-> 0]
        ELSE IF live = {}
        THEN [kind |-> "exhausted", it |-> it, task |-> 0]
        ELSE IF it.len = 0
        THEN [kind |-> "raise", it |-> it, task |-> 0]
        ELSE LET i == CHOOSE k \in live : \A l \in live : k <= l
                 it2 == [used |-> it.used, pos |-> i, len |-> it.len - 1]
             IN  IF tasks[d[i].task].pc = "done"
                 THEN CloseLoop(it2)
                 ELSE [kind |-> "await", it |-> it2, task |-> d[i].task]

\* lines 278-289 from one await to the next
CloseStep(it) ==
    LET r == CloseLoop(it)
    IN  /\ closer' = [pc   |-> CASE r.kind = "raise" -> "raised"
                                 [] r.kind = "exhausted" -> "closing"
                                 [] r.kind = "await" -> "awaiting",
                      it   |-> IF r.kind = "await" THEN r.it ELSE NoIter,
                      task |-> r.task]
        /\ tasks' = IF r.kind = "await"
                    THEN [tasks EXCEPT ![r.task] = [@ EXCEPT !.must_cancel = TRUE]]
                    ELSE tasks

Close ==
    /\ closer.pc = "idle"
    /\ CloseStep([used |-> DictLen(summary_tasks), pos |-> 0,
                  len |-> DictLen(summary_tasks)])
    /\ UNCHANGED << enable, chat_history, summary_tasks, last_summary_time,
                    http_session, outbox, clock, received, called, uncaught >>

\* "await task" returns: the task is done, its CancelledError is caught
CloseResume ==
    /\ closer.pc = "awaiting"
    /\ tasks[closer.task].pc = "done"
    /\ CloseStep(closer.it)
    /\ UNCHANGED << enable, chat_history, summary_tasks, last_summary_time,
                    http_session, outbox, clock, received, called, uncaught >>

\* lines 288-291
CloseSession ==
    /\ closer.pc = "closing"
    /\ http_session' = "closed"
    /\ closer' = [pc |-> "done", it |-> NoIter, task |-> 0]
    /\ UNCHANGED << enable, chat_history, summary_tasks, last_summary_time,
                    tasks, outbox, clock, received, called, uncaught >>

\* a caller runs _summarize_chat itself, as a test of the method does
DirectCounts == {0, default_num_messages}

CallSummarize(c, n) ==
    /\ called < MaxCalls
    /\ called' = called + 1
    /\ tasks' = Append(tasks, NewTask(c, n, "direct"))
    /\ UNCHANGED << enable, chat_history, summary_tasks, last_summary_time,
                    http_session, closer, outbox, clock, received, uncaught >>

\* ------------------------------------------------------------ specifications

\* The plugin driven by message events and close().  handle_text_message
\* records the trigger before it creates the task, so no task of this
\* specification reaches the send of line 124 and NoticeReturn is a step of
\* SpecDirect only.
Next ==
    \/ \E m \in Messages, o \in SendOutcomes : HandleTextMessage(m, o)
    \/ \E t \in TaskIds : TaskStart(t)
    \/ \E t \in TaskIds, o \in NickOutcomes : NickReturn(t, o)
    \/ \E t \in TaskIds, r \in DifyResponses : DifyReturn(t, r)
    \/ \E t \in TaskIds, o \in SendOutcomes : SendReturn(t, o)
    \/ \E t \in TaskIds, o \in SendOutcomes : ErrSendReturn(t, o)
    \/ \E t \in TaskIds : TaskCancelled(t)
    \/ Close
    \/ CloseResume
    \/ CloseSession

Spec == Init /\ [][Next]_vars

\* The event loop runs every coroutine that can go on, and every host call
\* and external call returns or raises; messages and close() may never come.
Fairness ==
    /\ WF_vars(\E t \in TaskIds : TaskStart(t))
    /\ WF_vars(\E t \in TaskIds, o \in NickOutcomes : NickReturn(t, o))
    /\ WF_vars(\E t \in TaskIds, r \in DifyResponses : DifyReturn(t, r))
    /\ WF_vars(\E t \in TaskIds, o \in SendOutcomes : SendReturn(t, o))
    /\ WF_vars(\E t \in TaskIds, o \in SendOutcomes : ErrSendReturn(t, o))
    /\ WF_vars(\E t \in TaskIds : TaskCancelled(t))
    /\ WF_vars(CloseResume)
    /\ WF_vars(CloseSession)

FairSpec == Init /\ [][Next]_vars /\ Fairness

\* direct calls of _summarize_chat next to the message events
NextDirect ==
    \/ \E c \in Chats, n \in DirectCounts : CallSummarize(c, n)
    \/ \E m \in Messages, o \in SendOutcomes :
          received < MaxDirectMsgs /\ HandleTextMessage(m, o)
    \/ \E t \in TaskIds : TaskStart(t)
    \/ \E t \in TaskIds, o \in SendOutcomes : NoticeReturn(t, o)
    \/ \E t \in TaskIds, o \in NickOutcomes : NickReturn(t, o)
    \/ \E t \in TaskIds, r \in DifyResponses : DifyReturn(t, r)
    \/ \E t \in TaskIds, o \in SendOutcomes : SendReturn(t, o)
    \/ \E t \in TaskIds, o \in SendOutcomes : ErrSendReturn(t, o)
    \/ \E t \in TaskIds : TaskCancelled(t)
    \/ Close
    \/ CloseResume
    \/ CloseSession

SpecDirect == Init /\ [][NextDirect]_vars

\* one message with an arbitrary short text: the count extraction at work
Alphabet == {"z", "x", "0", "1", "7"}

Texts == UNION { [1..k -> Alphabet] : k \in 0..MaxTextLen }

ExtractMessages ==
    { [FromWxid |-> "c1", SenderWxid |-> "u1", Content |-> text,
       CreateTime |-> 3725] : text \in Texts }

NextExtract ==
    \E m \in ExtractMessages, o \in SendOutcomes :
        received = 0 /\ HandleTextMessage(m, o)

SpecExtract == Init /\ [][NextExtract]_vars

\* ------------------------------------------------------------------- claims

\* a task that has submitted its transcript and not yet finished
Submitted(t) == tasks[t].pc \in {"dify", "send"}

\* a trigger message is recorded for conversation c in this step
TriggerArrives(c) ==
    /\ Len(chat_history'[c]) = Len(chat_history[c]) + 1
    /\ IsCommand(chat_history'[c][Len(chat_history'[c])].Content)

\* C1: in every reachable state each conversation has at most one
\* summarization task that was created and has not finished, hence at most
\* one external summarization call in flight.
C1_SingleFlight ==
    \A c \in Chats :
        /\ Cardinality(Unfinished(c)) <= 1
        /\ Cardinality({ t \in Unfinished(c) : tasks[t].pc = "dify" }) <= 1

\* a second trigger arrived while the first task's external call is in flight
C1_Witness ==
    \E c \in Chats :
        /\ \E t \in Unfinished(c) : tasks[t].pc = "dify"
        /\ \E i \in 1..Len(outbox[c]) : outbox[c][i].kind = "in_progress"
        /\ Len(chat_history[c]) >= 2

\* C2: no finished task (returned, failed or cancelled) leaves the in-flight
\* marker of its conversation behind.
C2_FinishedTaskClearsMarker ==
    \A t \in TaskIds :
        tasks[t].pc = "done" =>
            ~ ( /\ tasks[t].chat_id \in DictKeys(summary_tasks)
                /\ DictGet(summary_tasks, tasks[t].chat_id) = t )

\* C3: a task that finds the buffer of its conversation empty sends the
\* "not enough history" notice once, never calls the external service and
\* sends no banner-prefixed message.
C3_EmptyHistoryStops ==
    \A t \in TaskIds :
        tasks[t].sawEmpty =>
            /\ tasks[t].difyCalls = 0
            /\ tasks[t].pc \in {"notice", "done"}
            /\ \A c \in Chats : \A i \in 1..Len(outbox[c]) :
                   outbox[c][i].by = t => outbox[c][i].kind = "no_history"

\* C4: the notice for a non-200 answer of the external service carries the
\* status code and the body and is not prefixed with the summary banner.
C4_ApiErrorNoBanner ==
    \A c \in Chats : \A i \in 1..Len(outbox[c]) :
        outbox[c][i].summary.kind = "api_error" =>
            /\ outbox[c][i].summary.status = 500
            /\ outbox[c][i].summary.text = "server error"
            /\ outbox[c][i].kind # "banner"

\* the last min(n, length) records of a buffer
LastN(history, n) ==
    LET k == IF n < Len(history) THEN n ELSE Len(history)
    IN  SubSeq(history, Len(history) - k + 1, Len(history))

\* C5: the transcript renders exactly the last min(n, length) records of the
\* buffer as it was when the task read it, in arrival order, for every n >= 0.
C5_TranscriptIsLastN ==
    \A t \in TaskIds :
        Submitted(t) =>
            tasks[t].text =
                Render(LastN(SubSeq(chat_history[tasks[t].chat_id], 1, tasks[t].histLen),
                             tasks[t].num_messages),
                       tasks[t].nicknames)

\* C6: a trigger for a Running conversation creates no task, leaves the
\* marker and every task untouched and sends exactly one "in progress"
\* message to that conversation; tasks are created only in the step in which
\* a trigger arrives for an Idle conversation (nothing is queued or retried).
C6_DeflectionFrame ==
    [][ /\ \A c \in Chats :
              (TriggerArrives(c) /\ InProgress(c)) =>
                  /\ tasks' = tasks
                  /\ summary_tasks' = summary_tasks
                  /\ Len(outbox'[c]) = Len(outbox[c]) + 1
                  /\ SubSeq(outbox'[c], 1, Len(outbox[c])) = outbox[c]
                  /\ outbox'[c][Len(outbox'[c])].kind = "in_progress"
                  /\ \A d \in Chats \ {c} : outbox'[d] = outbox[d]
        /\ Len(tasks') > Len(tasks) =>
              \E c \in Chats : TriggerArrives(c) /\ ~InProgress(c)
      ]_vars

\* the deflection was delivered and the deflected conversation is still Running
C6_Witness ==
    \E c \in Chats :
        /\ InProgress(c)
        /\ Len(outbox[c]) = 1
        /\ outbox[c][1].kind = "in_progress" /\ outbox[c][1].ok
        /\ Len(tasks) = 1

\* C7: close() ends normally whatever tasks are in flight.
C7_CloseFinishesNormally == closer.pc # "raised"

\* C8: once close() has ended the shared session has been closed.
C8_SessionClosedOnShutdown ==
    closer.pc \in {"done", "raised"} => http_session = "closed"

\* C9: the last-summary timestamp of a conversation changes only in the step
\* in which a task of that conversation delivers the summary of a successful
\* external call.
C9_TimestampOnlyOnSuccess ==
    [][ \A c \in Chats :
            last_summary_time'[c] # last_summary_time[c] =>
                \E t \in TaskIds :
                    /\ tasks[t].chat_id = c
                    /\ tasks[t].pc = "send" /\ tasks'[t].pc = "done"
                    /\ tasks[t].summary.kind = "answer"
                    /\ ~tasks[t].sawEmpty
      ]_vars

\* C10: the transcript a task has submitted is rendered from the records the
\* buffer held when the task took its snapshot; records appended later are
\* not in it.
C10_SnapshotIsolation ==
    \A t \in TaskIds :
        Submitted(t) =>
            tasks[t].text =
                Render(messages_to_summarize(
                           SubSeq(chat_history[tasks[t].chat_id], 1, tasks[t].histLen),
                           tasks[t].num_messages),
                       tasks[t].nicknames)

\* a message was recorded after the snapshot of a task that has submitted
C10_Witness ==
    \E t \in TaskIds :
        /\ Submitted(t)
        /\ Len(chat_history[tasks[t].chat_id]) > tasks[t].histLen

\* the buffer b extends the buffer a
IsPrefix(a, b) == Len(a) <= Len(b) /\ SubSeq(b, 1, Len(a)) = a

\* C11: every step leaves each buffer a prefix of its new value; a message
\* handled while the plugin is enabled is appended once, to the buffer of
\* its own conversation only; no other step changes a buffer.
C11_AppendOnly ==
    [][ /\ \A c \in Chats : IsPrefix(chat_history[c], chat_history'[c])
        /\ (received' # received /\ enable) =>
              \E c \in Chats :
                  /\ Len(chat_history'[c]) = Len(chat_history[c]) + 1
                  /\ chat_history'[c][Len(chat_history'[c])].FromWxid = c
                  /\ \A d \in Chats \ {c} : chat_history'[d] = chat_history[d]
        /\ received' = received => chat_history' = chat_history
      ]_vars

\* a buffer holds two records while a task of its conversation has finished,
\* a deflection was sent and close() has run
C11_Witness ==
    \E c \in Chats :
        /\ Len(chat_history[c]) >= 2
        /\ \E t \in TaskIds : tasks[t].chat_id = c /\ tasks[t].pc = "done"
        /\ \E i \in 1..Len(outbox[c]) : outbox[c][i].kind = "in_progress"
        /\ closer.pc # "idle"

\* C12: no failure of a send, a lookup or the external call leaves
\* handle_text_message or a task as an exception, and a task that ended
\* otherwise than by cancellation has removed its marker.
C12_NoFailureEscapes ==
    /\ uncaught = {}
    /\ \A t \in TaskIds :
          (tasks[t].pc = "done" /\ ~tasks[t].cancelled) =>
              ~ ( /\ tasks[t].chat_id \in DictKeys(summary_tasks)
                  /\ DictGet(summary_tasks, tasks[t].chat_id) = t )

\* a task ended, its marker gone, after its external call raised and the
\* send that followed failed too
C12_Witness ==
    \E c \in Chats : \E i \in 1..Len(outbox[c]) :
        /\ outbox[c][i].kind = "banner" /\ ~outbox[c][i].ok
        /\ outbox[c][i].summary.kind = "retry_later"
        /\ tasks[outbox[c][i].by].pc = "done"
        /\ ~InProgress(c)

RECURSIVE Pow10(_)
Pow10(k) == IF k = 0 THEN 1 ELSE 10 * Pow10(k - 1)

\* the decimal number written by the digits text[i..j]
RECURSIVE Decimal(_, _, _)
Decimal(text, i, j) ==
    IF i > j THEN 0
    ELSE DigitVal(text[i]) * Pow10(j - i) + Decimal(text, i + 1, j)

\* C13: the count of a new task is the number written by the first run of
\* digits of its trigger text, whatever its size, and the configured default
\* when the text has no digit.
C13_CountIsFirstDigitRun ==
    \A t \in TaskIds :
        tasks[t].pc = "start" =>
            LET text == chat_history[tasks[t].chat_id][tasks[t].trigIdx].Content
                n == tasks[t].num_messages
            IN  IF \A k \in 1..Len(text) : ~IsDigit(text[k])
                THEN n = default_num_messages
                ELSE \E i \in 1..Len(text), j \in 1..Len(text) :
                        /\ i <= j
                        /\ \A k \in i..j : IsDigit(text[k])
                        /\ \A k \in 1..(i - 1) : ~IsDigit(text[k])
                        /\ j = Len(text) \/ ~IsDigit(text[j + 1])
                        /\ n = Decimal(text, i, j)

\* a trigger text with the digits 100 started a task for 100 messages
C13_Witness ==
    \E t \in TaskIds :
        /\ tasks[t].pc = "start" /\ tasks[t].num_messages = 100
        /\ Len(chat_history[tasks[t].chat_id][tasks[t].trigIdx].Content) = 4

\* C14: enable never changes, and a handle_text_message call of a disabled
\* plugin changes no buffer, marker or timestamp, sends nothing and starts
\* no task.
C14_DisabledIsInert ==
    [][ /\ enable' = enable
        /\ (~enable /\ received' # received) =>
              /\ chat_history' = chat_history
              /\ summary_tasks' = summary_tasks
              /\ last_summary_time' = last_summary_time
              /\ outbox' = outbox
              /\ tasks' = tasks
      ]_vars

\* a disabled plugin has handled two messages
C14_Witness ==
    /\ ~enable
    /\ received >= 2
    /\ \A c \in Chats : chat_history[c] = << >>

\* the tasks that hold a snapshot
Snapshotted(t) == tasks[t].pc \in {"nick", "dify", "send", "errsend"}

\* C15: in every task each sender of the snapshot is looked up at most once
\* and all of them before the transcript is rendered; a failed lookup
\* leaves the wxid as the display name and a successful one the nickname;
\* the task goes on to exactly one external call, and reaches the error
\* notice only when the rendering itself raised.
C15_LookupFallback ==
    \A t \in TaskIds :
        Snapshotted(t) =>
            LET tk == tasks[t]
                looked == { tk.lookups[i].wxid : i \in 1..Len(tk.lookups) }
            IN  /\ Cardinality(looked) = Len(tk.lookups)
                /\ looked \subseteq Wxids(tk.messages_to_summarize)
                /\ DOMAIN tk.nicknames = looked
                /\ \A i \in 1..Len(tk.lookups) :
                      tk.nicknames[tk.lookups[i].wxid] =
                          IF tk.lookups[i].ok THEN HostNickname(tk.lookups[i].wxid)
                          ELSE tk.lookups[i].wxid
                /\ tk.pc = "nick" => tk.cur \notin looked
                /\ tk.pc \in {"dify", "send"} =>
                      /\ looked = Wxids(tk.messages_to_summarize)
                      /\ tk.difyCalls = 1
                      /\ \A i \in 1..Len(tk.text) :
                            tk.text[i].name =
                                tk.nicknames[tk.messages_to_summarize[i].SenderWxid]
                /\ tk.pc = "errsend" =>
                      /\ looked = Wxids(tk.messages_to_summarize)
                      /\ RenderRaises(tk.messages_to_summarize)
                      /\ tk.difyCalls = 0

\* the external call was issued for two senders, one of whose lookups failed
C15_Witness ==
    \E t \in TaskIds :
        /\ tasks[t].pc = "dify"
        /\ Len(tasks[t].lookups) = 2
        /\ \E i \in 1..2 : ~tasks[t].lookups[i].ok
        /\ \E i \in 1..2 : tasks[t].lookups[i].ok

\* the task summary_tasks holds for a conversation, 0 when it holds none
MarkerOf(d, c) == IF c \in DictKeys(d) THEN DictGet(d, c) ELSE 0

\* C16: a trigger for an Idle conversation creates a task for it and makes
\* it the marker, whatever the other conversations do; the marker of a
\* conversation changes only in such a step or in a step that ends a task of
\* that same conversation.
C16_PerConversationGuard ==
    [][ \A c \in Chats :
          /\ (TriggerArrives(c) /\ ~InProgress(c)) =>
                /\ Len(tasks') = Len(tasks) + 1
                /\ tasks'[Len(tasks')].chat_id = c
                /\ tasks'[Len(tasks')].pc = "start"
                /\ MarkerOf(summary_tasks', c) = Len(tasks')
          /\ MarkerOf(summary_tasks', c) # MarkerOf(summary_tasks, c) =>
                \/ TriggerArrives(c) /\ ~InProgress(c)
                \/ \E t \in TaskIds :
                      /\ tasks[t].chat_id = c
                      /\ tasks[t].pc # "done" /\ tasks'[t].pc = "done"
      ]_vars

\* one conversation is Running while a task of the other one has ended and
\* removed its own marker
C16_Witness ==
    \E x \in Chats, y \in Chats :
        /\ x # y
        /\ InProgress(x) /\ Unfinished(x) # {}
        /\ ~InProgress(y)
        /\ \E t \in TaskIds : tasks[t].chat_id = y /\ tasks[t].pc = "done"

\* C17: under fair scheduling every conversation that is Running becomes
\* Idle again.
C17_RunningLeadsToIdle ==
    \A c \in Chats : InProgress(c) ~> ~InProgress(c)

\* C18: no task started by handle_text_message takes the empty-history
\* branch and no "not enough history" notice is ever sent; the trigger of a
\* task is a record of the buffer, and a task asked for n >= 1 records that
\* takes its snapshot before another message arrives summarizes the trigger
\* and the n - 1 records before it.
C18_TriggerIsRecorded ==
    /\ \A t \in TaskIds : ~tasks[t].sawEmpty /\ tasks[t].pc # "notice"
    /\ \A c \in Chats : \A i \in 1..Len(outbox[c]) : outbox[c][i].kind # "no_history"
    /\ \A t \in TaskIds :
          tasks[t].pc # "done" =>
              LET tk == tasks[t]
                  h == chat_history[tk.chat_id]
              IN  /\ tk.trigIdx \in 1..Len(h)
                  /\ IsCommand(h[tk.trigIdx].Content)
                  /\ NumMessages(h[tk.trigIdx].Content) = tk.num_messages
                  /\ Snapshotted(t) =>
                        /\ tk.histLen >= tk.trigIdx
                        /\ (tk.num_messages >= 1 /\ tk.histLen = tk.trigIdx) =>
                              /\ tk.messages_to_summarize =
                                     LastN(SubSeq(h, 1, tk.trigIdx), tk.num_messages)
                              /\ tk.messages_to_summarize[Len(tk.messages_to_summarize)]
                                     = h[tk.trigIdx]

\* a task asked for two records holds its trigger and the record before it
C18_Witness ==
    \E t \in TaskIds :
        /\ Snapshotted(t)
        /\ tasks[t].num_messages = 2
        /\ tasks[t].trigIdx = 2 /\ tasks[t].histLen = 2
        /\ Len(tasks[t].messages_to_summarize) = 2

====
